---- MODULE Spec2Model ----
(***************************************************************************)
(* Resume-analysis job pipeline: the intake handler (upload_file), the     *)
(* background worker (process_file), the two workflow nodes and the status *)
(* read (get_file_by_id), over the document store, the upload directory    *)
(* and the job queue.                                                      *)
(*                                                                         *)
(* Modelling conventions                                                   *)
(*  - a Python Optional is a sequence of length <= 1: None is <<>> and a   *)
(*    present value v is <<v>>;                                            *)
(*  - a stored document is a function from field names to values whose     *)
(*    DOMAIN is the set of fields the document holds; "$set" merges;       *)
(*  - the inserted ObjectId of the n-th upload is the integer n;           *)
(*  - every store call and every external call is one atomic step; the     *)
(*    store itself is taken to be available (its calls do not raise).      *)
(***************************************************************************)
EXTENDS Integers, Sequences, FiniteSets, TLC

\* ---------------------------------------------------------------- bounds
MaxUploads == 1
MaxPages == 1

Ids == 1..MaxUploads

\* ---------------------------------------------------------------- inputs
FileNames == {"cv.pdf"}
JobDescriptions == {"backend dev"}
\* str(e) of the exceptions the external calls raise
ExcMessages == {"", "timeout"}
\* response.content of the stage 1 model
EnhancedTexts == {"Backend developer: Python required"}

FullReply == "{\"match_score\": 80, \"improvements\": [\"add metrics\"], \"weaknesses\": [], \"summary\": \"good fit\"}"
EmptyObjectReply == "{}"
ArrayReply == "[]"
ProseReply == "Sure! Here is the analysis: good fit"
\* response.content of the stage 2 model
ReplyTexts == {FullReply, EmptyObjectReply, ArrayReply, ProseReply, ""}

None == <<>>
Some(v) == <<v>>

VARIABLES
    records,      \* the "files" collection: id -> document
    disk,         \* /mnt/uploads: path -> "partial" | "complete"
    queue,        \* the job queue (FIFO)
    pcI,          \* position of upload_file for each upload
    upload,       \* arguments of each upload request
    pcW,          \* position of process_file in the worker
    job,          \* arguments of the job the worker runs
    images,       \* process_file's images list
    final_state,  \* the workflow state
    exc,          \* str(e) of the exception caught at the top level
    connOpen,     \* per job: its MongoClient is open
    history,      \* per record, in order: the status writes made to it and
                  \* the model stages invoked for it
    response      \* the last body returned by GET /{id}

vars == <<records, disk, queue, pcI, upload, pcW, job, images, final_state,
          exc, connOpen, history, response>>

\* ------------------------------------------------------- store and paths
\* update_one({"_id": id}, {"$set": upd}); a no-op when nothing matches
UpdateOne(id, upd) ==
    IF id \in DOMAIN records
    THEN [records EXCEPT ![id] = upd @@ records[id]]
    ELSE records

\* FileSchema(name=..., status=..., job_description=...)
FileSchema(name, status, job_description) ==
    [name |-> name, status |-> status, job_description |-> job_description]

FilePath(id, filename) == "/mnt/uploads/" \o ToString(id) \o "/" \o filename

ImageSavePath(id, i) ==
    "/mnt/uploads/images/" \o ToString(id) \o "/image-" \o ToString(i) \o ".jpg"

\* history events: a status write with the document written, or an external
\* call made by the worker with its outcome
LogWrite(id, by, upd) ==
    [history EXCEPT ![id] =
        Append(@, [kind |-> "write", by |-> by, what |-> upd.status, arg |-> upd])]

LogCall(id, step, outcome) ==
    [history EXCEPT ![id] =
        Append(@, [kind |-> "call", by |-> "worker", what |-> step, arg |-> outcome])]

\* id the store gives the next inserted document
NextId == Cardinality(DOMAIN records) + 1

\* ------------------------------------------------------------ upload_file
\* position of upload_file after insert_one: the file is saved next
AfterInsertEnqueues == "enqueue"
AfterInsert == "save"

\* position after save_to_disc raised: the exception leaves upload_file
AfterSaveFailed == "failed"

\* files_collection.insert_one(FileSchema(..., status="saving", ...))
UploadInsert(i, filename, job_description) ==
    /\ pcI[i] = "insert"
    /\ i = NextId
    /\ records' = (i :> FileSchema(filename, "saving", job_description)) @@ records
    /\ upload' = [upload EXCEPT ![i] =
                    [filename |-> filename, job_description |-> job_description]]
    /\ history' = LogWrite(i, "intake", FileSchema(filename, "saving", job_description))
    /\ pcI' = [pcI EXCEPT ![i] = AfterInsert]
    /\ UNCHANGED <<disk, queue, pcW, job, images, final_state, exc, connOpen,
                   response>>

\* save_to_disc(file, path): makedirs, open 'wb', write; written |-> what a
\* failing call leaves at the path ("none" or "partial")
SaveToDisc(path, ok, left) ==
    IF ok THEN (path :> "complete") @@ disk
    ELSE IF left = "partial" THEN (path :> "partial") @@ disk
    ELSE disk

UploadSave(i, ok, left) ==
    /\ pcI[i] = "save"
    /\ disk' = SaveToDisc(FilePath(i, upload[i].filename), ok, left)
    /\ pcI' = [pcI EXCEPT ![i] = IF ok THEN "enqueue" ELSE AfterSaveFailed]
    /\ UNCHANGED <<records, queue, upload, pcW, job, images, final_state, exc,
                   connOpen, history, response>>

\* q.enqueue(process_file, str(id), file_path=..., job_description=...)
UploadEnqueue(i) ==
    /\ pcI[i] = "enqueue"
    /\ queue' = Append(queue, [id |-> i,
                               file_path |-> FilePath(i, upload[i].filename),
                               job_description |-> upload[i].job_description])
    /\ pcI' = [pcI EXCEPT ![i] = "set_queued"]
    /\ UNCHANGED <<records, disk, upload, pcW, job, images, final_state, exc,
                   connOpen, history, response>>

\* update_one(..., {"$set": {"status": "queued"}}); return {"file_id": ...}
QueuedUpdate == [status |-> "queued"]

UploadSetQueued(i) ==
    /\ pcI[i] = "set_queued"
    /\ records' = UpdateOne(i, QueuedUpdate)
    /\ history' = LogWrite(i, "intake", QueuedUpdate)
    /\ pcI' = [pcI EXCEPT ![i] = "done"]
    /\ UNCHANGED <<disk, queue, upload, pcW, job, images, final_state, exc,
                   connOpen, response>>

\* ------------------------------------------------------- workflow nodes
\* json.loads(text) on the replies of ReplyTexts: a JSON object becomes a
\* dict, another JSON value is returned as it is, anything else raises
\* json.JSONDecodeError
JsonLoads(text) ==
    CASE text = FullReply ->
            [kind |-> "dict",
             value |-> [match_score |-> 80, improvements |-> <<"add metrics">>,
                        weaknesses |-> <<>>, summary |-> "good fit"]]
      [] text = EmptyObjectReply -> [kind |-> "dict", value |-> <<>>]
      [] text = ArrayReply -> [kind |-> "list", value |-> <<>>]
      [] OTHER -> [kind |-> "invalid", value |-> <<>>]

\* dict.get(key, default), default already an Optional
DictGet(d, key, default) == IF key \in DOMAIN d THEN Some(d[key]) ELSE default

\* initial_state of process_file
InitialState(id, job_description, imgs) ==
    [file_id |-> id,
     job_description |-> job_description,
     enhanced_job_description |-> None,
     resume_images |-> imgs,
     match_score |-> None,
     improvements |-> None,
     weaknesses |-> None,
     summary |-> None,
     error |-> None]

Stage1ErrorBare(e) == e
Stage1Error(e) == "Error enhancing job description: " \o e

Stage2Error(e) == "Error analyzing resume: " \o e

\* outcome of llm.invoke: [raised |-> BOOLEAN, text |-> content or str(e)]
enhance_job_description_node_KeepsOriginal(state, outcome) ==
    IF ~outcome.raised
    THEN [state EXCEPT !.enhanced_job_description = Some(state.job_description)]
    ELSE [state EXCEPT !.error = Some(Stage1Error(outcome.text))]
enhance_job_description_node(state, outcome) ==
    IF ~outcome.raised
    THEN [state EXCEPT !.enhanced_job_description = Some(outcome.text)]
    ELSE [state EXCEPT !.error = Some(Stage1Error(outcome.text))]

\* the except json.JSONDecodeError branch
ParseFailureSilent(state, content) ==
    [state EXCEPT !.match_score = None,
                  !.improvements = Some(<<>>),
                  !.weaknesses = Some(<<>>),
                  !.summary = Some(content)]
ParseFailure(state, content) ==
    [state EXCEPT !.match_score = None,
                  !.improvements = Some(<<>>),
                  !.weaknesses = Some(<<>>),
                  !.summary = Some(content),
                  !.error = Some("Could not parse structured response, returning raw text")]

\* the branch after a successful json.loads that returned a dict
ParseSuccess(state, d) ==
    [state EXCEPT !.match_score = DictGet(d, "match_score", None),
                  !.improvements = DictGet(d, "improvements", Some(<<>>)),
                  !.weaknesses = DictGet(d, "weaknesses", Some(<<>>)),
                  !.summary = DictGet(d, "summary", Some(""))]

analyze_resume_match_node(state, outcome) ==
    IF outcome.raised
    THEN [state EXCEPT !.error = Some(Stage2Error(outcome.text))]
    ELSE LET parsed == JsonLoads(outcome.text) IN
         CASE parsed.kind = "dict" -> ParseSuccess(state, parsed.value)
           [] parsed.kind = "invalid" -> ParseFailure(state, outcome.text)
           [] OTHER ->   \* .get on a non-dict raises AttributeError
                [state EXCEPT !.error =
                    Some(Stage2Error("'list' object has no attribute 'get'"))]

\* add_edge("enhance_job_description", "analyze_resume_match"): the position
\* of the run after node 1 returned its state
AfterStage1SkipsOnError(state) ==
    IF state.error # None THEN "set_analyzing" ELSE "stage2"
AfterStage1(state) == "stage2"

\* bool(x) of an Optional[str]
Truthy(opt) == Len(opt) > 0 /\ Len(opt[1]) > 0

\* ----------------------------------------------------------- process_file
NoJob == [id |-> 0, file_path |-> "", job_description |-> ""]
NoState == InitialState("", "", <<>>)

ProcessingUpdateRenamed == [status |-> "started"]
ProcessingUpdate == [status |-> "processing"]

ConversionCompleteUpdate == [status |-> "conversion complete"]

EnhancingUpdate == [status |-> "enhancing job description"]

AnalyzingUpdate == [status |-> "analyzing resume match"]

\* analysis_result and update_data of process_file, error added if present
FinalUpdateKeepsCompleted(fs) ==
    LET analysis_result == [match_score |-> fs.match_score,
                            improvements |-> fs.improvements,
                            weaknesses |-> fs.weaknesses,
                            summary |-> fs.summary]
        update_data == [status |-> "completed",
                        enhanced_job_description |-> fs.enhanced_job_description,
                        analysis |-> analysis_result,
                        result |-> fs.summary]
    IN  IF Truthy(fs.error)
        THEN [error |-> fs.error[1]] @@ update_data
        ELSE update_data
FinalUpdate(fs) ==
    LET analysis_result == [match_score |-> fs.match_score,
                            improvements |-> fs.improvements,
                            weaknesses |-> fs.weaknesses,
                            summary |-> fs.summary]
        update_data == [status |-> "completed",
                        enhanced_job_description |-> fs.enhanced_job_description,
                        analysis |-> analysis_result,
                        result |-> fs.summary]
    IN  IF Truthy(fs.error)
        THEN [status |-> "error", error |-> fs.error[1]] @@ update_data
        ELSE update_data

\* the update of the top-level except branch
HandlerUpdateClearsResult(e) ==
    [status |-> "error", error |-> "Error processing file: " \o e,
     result |-> None, analysis |-> None]
HandlerUpdate(e) == [status |-> "error", error |-> "Error processing file: " \o e]

\* position of process_file after the write of update_data: it returns
AfterFinalWriteRaises == "except"
AfterFinalWrite == "idle"

WorkerUnchanged == UNCHANGED <<disk, queue, pcI, upload, response>>

\* the worker takes the next job: process_file starts and opens its client
WorkerDequeue ==
    /\ pcW = "idle"
    /\ queue # <<>>
    /\ job' = Head(queue)
    /\ queue' = Tail(queue)
    /\ connOpen' = [connOpen EXCEPT ![Head(queue).id] = TRUE]
    /\ pcW' = "set_processing"
    /\ UNCHANGED <<records, disk, pcI, upload, images, final_state, exc,
                   history, response>>

WorkerSetProcessing ==
    /\ pcW = "set_processing"
    /\ records' = UpdateOne(job.id, ProcessingUpdate)
    /\ history' = LogWrite(job.id, "worker", ProcessingUpdate)
    /\ pcW' = "convert"
    /\ UNCHANGED <<job, images, final_state, exc, connOpen>>
    /\ WorkerUnchanged

\* convert_from_path(file_path) and the loop saving one JPEG per page
WorkerConvert(ok, n, e) ==
    /\ pcW = "convert"
    /\ LET readable == /\ job.file_path \in DOMAIN disk
                       /\ disk[job.file_path] = "complete"
       IN  IF ok /\ readable
           THEN /\ images' = [i \in 1..n |-> ImageSavePath(job.id, i - 1)]
                /\ pcW' = "set_converted"
                /\ exc' = exc
                /\ history' = LogCall(job.id, "convert", [raised |-> FALSE, text |-> ""])
           ELSE /\ images' = images
                /\ pcW' = "except"
                /\ exc' = e
                /\ history' = LogCall(job.id, "convert", [raised |-> TRUE, text |-> e])
    /\ UNCHANGED <<records, job, final_state, connOpen>>
    /\ WorkerUnchanged

WorkerSetConverted ==
    /\ pcW = "set_converted"
    /\ records' = UpdateOne(job.id, ConversionCompleteUpdate)
    /\ history' = LogWrite(job.id, "worker", ConversionCompleteUpdate)
    /\ pcW' = "set_enhancing"
    /\ UNCHANGED <<job, images, final_state, exc, connOpen>>
    /\ WorkerUnchanged

\* the "enhancing job description" write, then initial_state is prepared
WorkerSetEnhancing ==
    /\ pcW = "set_enhancing"
    /\ records' = UpdateOne(job.id, EnhancingUpdate)
    /\ history' = LogWrite(job.id, "worker", EnhancingUpdate)
    /\ final_state' = InitialState(ToString(job.id), job.job_description, images)
    /\ pcW' = "stage1"
    /\ UNCHANGED <<job, images, exc, connOpen>>
    /\ WorkerUnchanged

\* workflow.invoke, entry point: enhance_job_description
WorkerStage1(outcome) ==
    /\ pcW = "stage1"
    /\ final_state' = enhance_job_description_node(final_state, outcome)
    /\ history' = LogCall(job.id, "stage1", outcome)
    /\ pcW' = AfterStage1(final_state')
    /\ UNCHANGED <<records, job, images, exc, connOpen>>
    /\ WorkerUnchanged

\* workflow.invoke, edge enhance_job_description -> analyze_resume_match -> END
WorkerStage2(outcome) ==
    /\ pcW = "stage2"
    /\ final_state' = analyze_resume_match_node(final_state, outcome)
    /\ history' = LogCall(job.id, "stage2", outcome)
    /\ pcW' = "set_analyzing"
    /\ UNCHANGED <<records, job, images, exc, connOpen>>
    /\ WorkerUnchanged

WorkerSetAnalyzing ==
    /\ pcW = "set_analyzing"
    /\ records' = UpdateOne(job.id, AnalyzingUpdate)
    /\ history' = LogWrite(job.id, "worker", AnalyzingUpdate)
    /\ pcW' = "set_final"
    /\ UNCHANGED <<job, images, final_state, exc, connOpen>>
    /\ WorkerUnchanged

\* the write of update_data, the prints, and the return of process_file
WorkerSetFinal ==
    /\ pcW = "set_final"
    /\ records' = UpdateOne(job.id, FinalUpdate(final_state))
    /\ history' = LogWrite(job.id, "worker", FinalUpdate(final_state))
    /\ pcW' = AfterFinalWrite
    /\ IF AfterFinalWrite = "idle"
       THEN job' = NoJob /\ images' = <<>> /\ final_state' = NoState
       ELSE UNCHANGED <<job, images, final_state>>
    /\ UNCHANGED <<exc, connOpen>>
    /\ WorkerUnchanged

\* except Exception as e: the error write
WorkerHandler ==
    /\ pcW = "except"
    /\ records' = UpdateOne(job.id, HandlerUpdate(exc))
    /\ history' = LogWrite(job.id, "worker", HandlerUpdate(exc))
    /\ pcW' = "close"
    /\ UNCHANGED <<job, images, final_state, exc, connOpen>>
    /\ WorkerUnchanged

\* finally: sync_mongo_client.close(), and process_file returns
WorkerClose ==
    /\ pcW = "close"
    /\ connOpen' = [connOpen EXCEPT ![job.id] = FALSE]
    /\ pcW' = "idle"
    /\ job' = NoJob
    /\ images' = <<>>
    /\ final_state' = NoState
    /\ exc' = ""
    /\ UNCHANGED <<records, history>>
    /\ WorkerUnchanged

\* --------------------------------------------------------- get_file_by_id
\* dict.get(key) on the stored document
DocGet(doc, key) == IF key \in DOMAIN doc THEN doc[key] ELSE None

\* the body get_file_by_id builds from the document found
get_file_by_id(id, db_file) ==
    [_id |-> ToString(id),
     name |-> db_file["name"],
     status |-> db_file["status"],
     job_description |-> DocGet(db_file, "job_description"),
     enhanced_job_description |-> DocGet(db_file, "enhanced_job_description"),
     result |-> DocGet(db_file, "result"),
     analysis |-> DocGet(db_file, "analysis")]

\* find_one returned None: subscripting it raises, the framework answers 500
InternalServerError == [detail |-> "Internal Server Error"]

GetFileById(id) ==
    /\ response' = IF id \in DOMAIN records
                   THEN get_file_by_id(id, records[id])
                   ELSE InternalServerError
    /\ UNCHANGED <<records, disk, queue, pcI, upload, pcW, job, images,
                   final_state, exc, connOpen, history>>

\* ------------------------------------------------------------ the system
Outcomes(texts) ==
    [raised : {FALSE}, text : texts] \cup [raised : {TRUE}, text : ExcMessages]

Init ==
    /\ records = <<>>
    /\ disk = <<>>
    /\ queue = <<>>
    /\ pcI = [i \in Ids |-> "insert"]
    /\ upload = [i \in Ids |-> [filename |-> "", job_description |-> ""]]
    /\ pcW = "idle"
    /\ job = NoJob
    /\ images = <<>>
    /\ final_state = NoState
    /\ exc = ""
    /\ connOpen = [i \in Ids |-> FALSE]
    /\ history = [i \in Ids |-> <<>>]
    /\ response = <<>>

Next ==
    \/ \E i \in Ids, f \in FileNames, jd \in JobDescriptions : UploadInsert(i, f, jd)
    \/ \E i \in Ids, ok \in BOOLEAN, left \in {"none", "partial"} : UploadSave(i, ok, left)
    \/ \E i \in Ids : UploadEnqueue(i)
    \/ \E i \in Ids : UploadSetQueued(i)
    \/ WorkerDequeue
    \/ WorkerSetProcessing
    \/ \E ok \in BOOLEAN, n \in 0..MaxPages, e \in ExcMessages : WorkerConvert(ok, n, e)
    \/ WorkerSetConverted
    \/ WorkerSetEnhancing
    \/ \E o \in Outcomes(EnhancedTexts) : WorkerStage1(o)
    \/ \E o \in Outcomes(ReplyTexts) : WorkerStage2(o)
    \/ WorkerSetAnalyzing
    \/ WorkerSetFinal
    \/ WorkerHandler
    \/ WorkerClose
    \/ \E i \in Ids : GetFileById(i)

Spec == Init /\ [][Next]_vars

\* the worker and each intake handler eventually take their next step; the
\* client's reads are not required to happen
WorkerStep ==
    \/ WorkerDequeue
    \/ WorkerSetProcessing
    \/ \E ok \in BOOLEAN, n \in 0..MaxPages, e \in ExcMessages : WorkerConvert(ok, n, e)
    \/ WorkerSetConverted
    \/ WorkerSetEnhancing
    \/ \E o \in Outcomes(EnhancedTexts) : WorkerStage1(o)
    \/ \E o \in Outcomes(ReplyTexts) : WorkerStage2(o)
    \/ WorkerSetAnalyzing
    \/ WorkerSetFinal
    \/ WorkerHandler
    \/ WorkerClose

IntakeStep(i) ==
    \/ \E f \in FileNames, jd \in JobDescriptions : UploadInsert(i, f, jd)
    \/ \E ok \in BOOLEAN, left \in {"none", "partial"} : UploadSave(i, ok, left)
    \/ UploadEnqueue(i)
    \/ UploadSetQueued(i)

FairSpec ==
    /\ Spec
    /\ WF_vars(WorkerStep)
    /\ \A i \in Ids : WF_vars(IntakeStep(i))

\* ------------------------------------------------------ history helpers
Terminal == {"completed", "error"}

IsWrite(ev) == ev.kind = "write"
IsWorkerWrite(ev) == ev.kind = "write" /\ ev.by = "worker"
IsCall(ev) == ev.kind = "call"

\* all status writes made to the record, and those made by process_file
Writes(id) == SelectSeq(history[id], IsWrite)
WorkerWrites(id) == SelectSeq(history[id], IsWorkerWrite)

\* indexes of the invocations of one step in the history of a record
CallsOf(id, step) ==
    {k \in 1..Len(history[id]) : IsCall(history[id][k]) /\ history[id][k].what = step}

\* process_file has been started for the record / has returned for it
RunStarted(id) == \E k \in 1..Len(history[id]) : history[id][k].by = "worker"
RunFinished(id) == RunStarted(id) /\ job.id # id

\* the job for the record has been handed to the queue
Enqueued(id) ==
    \/ \E k \in 1..Len(queue) : queue[k].id = id
    \/ job.id = id
    \/ RunStarted(id)

\* ------------------------------------------------------------------ C1
\* C1: for every upload whose record was created, whose file was saved and
\* whose job was enqueued, under fair scheduling of the worker and of the
\* intake handler, the record's status eventually is "completed" or "error"
\* and stays one of the two forever.
C1_EventuallyTerminalForever ==
    \A id \in Ids :
        (pcI[id] \in {"set_queued", "done"})
            ~> [](id \in DOMAIN records /\ records[id].status \in Terminal)

\* ------------------------------------------------------------------ C2
\* C2: for one record, no status write of the intake handler comes after
\* (and so overwrites) a status write of the worker.
C2_IntakeNeverOverwritesWorker ==
    \A id \in Ids :
        LET W == Writes(id) IN
        \A k \in 1..Len(W) :
            W[k].by = "intake" => \A j \in 1..(k - 1) : W[j].by # "worker"

\* ------------------------------------------------------------------ C3
SpecStatuses ==
    {"saving", "processing", "conversion complete", "enhancing job description",
     "analyzing resume match", "completed", "error"}

\* every record is created with "saving", and the status of every record and
\* of every write made to it lies in the set S
StatusesWithin(S) ==
    \A id \in Ids :
        /\ id \in DOMAIN records => records[id].status \in S
        /\ \A k \in 1..Len(Writes(id)) : Writes(id)[k].what \in S
        /\ Len(Writes(id)) > 0 => Writes(id)[1].what = "saving"

\* C3 (as claimed): a record's status is always one of "saving",
\* "processing", "conversion complete", "enhancing job description",
\* "analyzing resume match", "completed", "error"; it is created with
\* "saving" and no write leaves the set.
C3_StatusInSpecSet == StatusesWithin(SpecStatuses)

\* C3 (amended): the same with "queued", which the intake handler writes
\* after enqueueing, added to the set.
C3_StatusInSetWithQueued == StatusesWithin(SpecStatuses \cup {"queued"})

C3_Witness ==
    \E id \in DOMAIN records :
        /\ records[id].status = "queued"
        /\ RunStarted(id)

\* ------------------------------------------------------------------ C4
\* C4: "enhancing job description" is written before stage 1 is invoked;
\* "analyzing resume match" is written after stage 1 returned and before
\* stage 2 is invoked, so a record whose status is "analyzing resume match"
\* belongs to a job whose stage 2 has not finished.
C4_AnalyzingWrittenBetweenStages ==
    \A id \in Ids :
        LET H == history[id] IN
        /\ \A k \in 1..Len(H) :
              /\ (IsCall(H[k]) /\ H[k].what = "stage1") =>
                    \E j \in 1..(k - 1) :
                        IsWorkerWrite(H[j]) /\ H[j].what = "enhancing job description"
              /\ (IsWorkerWrite(H[k]) /\ H[k].what = "analyzing resume match") =>
                    /\ \E j \in 1..(k - 1) : IsCall(H[j]) /\ H[j].what = "stage1"
                    /\ \A j \in 1..(k - 1) : ~(IsCall(H[j]) /\ H[j].what = "stage2")
        /\ (id \in DOMAIN records /\ records[id].status = "analyzing resume match")
              => CallsOf(id, "stage2") = {}

\* ------------------------------------------------------------------ C5
\* the last write process_file made to the record
LastWorkerWrite(id) == WorkerWrites(id)[Len(WorkerWrites(id))]

\* the stage 2 reply of the run was received and json.loads rejects it
UnparsableReply(id, text) ==
    \E k \in CallsOf(id, "stage2") :
        /\ ~history[id][k].arg.raised
        /\ history[id][k].arg.text = text
        /\ JsonLoads(text).kind = "invalid"

HandlerEntered(id) == job.id = id /\ pcW \in {"except", "close"}

\* C5: when the stage 2 reply cannot be parsed as JSON, the top-level
\* exception handler of the worker is not entered, and the final write of
\* the run stores the raw reply as analysis.summary and as result, a null
\* match_score, empty improvements and weaknesses, an error message and
\* status "error".
C5_UnparsableReplyDegrades ==
    \A id \in Ids : \A text \in ReplyTexts :
        UnparsableReply(id, text) =>
            /\ ~HandlerEntered(id)
            /\ \A k \in 1..Len(WorkerWrites(id)) :
                  "error" \in DOMAIN WorkerWrites(id)[k].arg =>
                      "analysis" \in DOMAIN WorkerWrites(id)[k].arg
            /\ RunFinished(id) =>
                  LET w == LastWorkerWrite(id).arg IN
                  /\ w.status = "error"
                  /\ "error" \in DOMAIN w /\ w.error # ""
                  /\ w.analysis.summary = Some(text)
                  /\ w.result = Some(text)
                  /\ w.analysis.match_score = None
                  /\ w.analysis.improvements = Some(<<>>)
                  /\ w.analysis.weaknesses = Some(<<>>)

C5_Witness ==
    \E id \in Ids :
        /\ UnparsableReply(id, ProseReply)
        /\ RunFinished(id)
        /\ records[id].status = "error"

\* ------------------------------------------------------------------ C6
Raised(id, step) == \E k \in CallsOf(id, step) : history[id][k].arg.raised

RunFailed(id) ==
    \/ Raised(id, "convert")
    \/ Raised(id, "stage1")
    \/ Raised(id, "stage2")
    \/ \E text \in ReplyTexts : UnparsableReply(id, text)

\* C6: whenever conversion raised, a model call raised or the stage 2 reply
\* failed to parse, the last write of the run sets status "error" with a
\* non-empty error message; and no step of a run is executed twice.
C6_FailureEndsInError ==
    \A id \in Ids :
        /\ \A step \in {"convert", "stage1", "stage2"} :
              Cardinality(CallsOf(id, step)) <= 1
        /\ (RunFinished(id) /\ RunFailed(id)) =>
              LET w == LastWorkerWrite(id).arg IN
              /\ w.status = "error"
              /\ "error" \in DOMAIN w
              /\ Len(w.error) > 0

C6_Witness ==
    \E id \in Ids :
        /\ RunFinished(id)
        /\ Raised(id, "stage1")
        /\ ~Raised(id, "stage2")
        /\ \A text \in ReplyTexts : ~UnparsableReply(id, text)

\* ------------------------------------------------------------------ C7
\* C7: when the stage 1 model call raised, the error recorded by the last
\* write of the run is the stage 1 message "Error enhancing job
\* description: ...", whatever stage 2 did.
C7_Stage1ErrorRecorded ==
    \A id \in Ids :
        \A k \in CallsOf(id, "stage1") :
            (history[id][k].arg.raised /\ RunFinished(id)) =>
                LET w == LastWorkerWrite(id).arg IN
                /\ "error" \in DOMAIN w
                /\ w.error = "Error enhancing job description: " \o history[id][k].arg.text

\* ------------------------------------------------------------------ C8
\* every field the document holds is in the body, with the stored value
Covers(body, doc) == \A key \in DOMAIN doc : key \in DOMAIN body /\ body[key] = doc[key]

\* C8: the body GET /{id} returns holds every field the stored record holds
\* at that moment, the error message included, with its stored value.
C8_FullSnapshot ==
    [][\A id \in Ids :
          (GetFileById(id) /\ id \in DOMAIN records) => Covers(response', records[id])]_vars

\* ------------------------------------------------------------------ C9
FileComplete(id) ==
    /\ FilePath(id, upload[id].filename) \in DOMAIN disk
    /\ disk[FilePath(id, upload[id].filename)] = "complete"

\* C9: intake persists the record, writes the file, enqueues the job and
\* returns, in this order: at the moment of enqueueing the record exists
\* with status "saving" and the file is completely written; a job that is
\* enqueued or running has its record and its complete file; after a failed
\* file write no job is ever enqueued.
C9_EnqueueAfterRecordAndFile ==
    \A id \in Ids :
        /\ pcI[id] = "enqueue" =>
              /\ id \in DOMAIN records
              /\ records[id].status = "saving"
              /\ FileComplete(id)
              /\ ~Enqueued(id)
        /\ Enqueued(id) =>
              /\ id \in DOMAIN records
              /\ FileComplete(id)
              /\ pcI[id] \in {"set_queued", "done"}
              /\ Writes(id)[1].what = "saving"
        /\ pcI[id] \in {"insert", "save", "failed"} => ~Enqueued(id)
        /\ pcI[id] = "done" => Enqueued(id)

C9_Witness ==
    \E id \in Ids :
        /\ job.id = id
        /\ pcW = "convert"
        /\ pcI[id] = "set_queued"

\* ----------------------------------------------------------------- C10
StatusOrder ==
    <<"processing", "conversion complete", "enhancing job description",
      "analyzing resume match">>

\* the statuses process_file wrote to the record, in order
WorkerStatuses(id) == [k \in 1..Len(WorkerWrites(id)) |-> WorkerWrites(id)[k].what]

\* C10: the statuses written in one worker run are a prefix of "processing",
\* "conversion complete", "enhancing job description", "analyzing resume
\* match", followed by exactly one write of "completed" or "error" once the
\* run has ended; nothing is written after that terminal write.
C10_WorkerStatusSequence ==
    \A id \in Ids :
        LET W == WorkerStatuses(id) IN
        /\ \E n \in 0..Len(StatusOrder) :
              \/ W = SubSeq(StatusOrder, 1, n)
              \/ /\ Len(W) = n + 1
                 /\ SubSeq(W, 1, n) = SubSeq(StatusOrder, 1, n)
                 /\ W[n + 1] \in Terminal
        /\ RunFinished(id) => W[Len(W)] \in Terminal

C10_Witness ==
    \E id \in Ids :
        /\ RunFinished(id)
        /\ WorkerStatuses(id) = StatusOrder \o <<"completed">>

\* ----------------------------------------------------------------- C11
\* the run wrote "enhancing job description": workflow.invoke is next
ReachedWorkflow(id) ==
    \E k \in 1..Len(WorkerWrites(id)) :
        WorkerWrites(id)[k].what = "enhancing job description"

\* workflow.invoke has returned in the run of the record
WorkflowReturned(id) ==
    \/ job.id = id /\ pcW \in {"set_analyzing", "set_final"}
    \/ \E k \in 1..Len(WorkerWrites(id)) :
          WorkerWrites(id)[k].what = "analyzing resume match"

\* C11: in every run that reaches the workflow, stage 1 is invoked exactly
\* once and then stage 2 exactly once; stage 2 never starts before stage 1
\* has returned; stage 2 is invoked also when stage 1 failed, and then with
\* a null enhanced description.
C11_LinearPipeline ==
    \A id \in Ids :
        LET s1 == CallsOf(id, "stage1")
            s2 == CallsOf(id, "stage2")
        IN  /\ Cardinality(s1) <= 1
            /\ Cardinality(s2) <= 1
            /\ \A k \in s2 : \E j \in s1 : j < k
            /\ (s1 # {} \/ s2 # {}) => ReachedWorkflow(id)
            /\ (ReachedWorkflow(id) /\ (WorkflowReturned(id) \/ RunFinished(id))) =>
                  Cardinality(s1) = 1 /\ Cardinality(s2) = 1
            /\ (job.id = id /\ pcW = "stage2" /\ Raised(id, "stage1")) =>
                  final_state.enhanced_job_description = None

C11_Witness ==
    \E id \in Ids :
        /\ RunFinished(id)
        /\ Raised(id, "stage1")
        /\ Cardinality(CallsOf(id, "stage2")) = 1

\* ----------------------------------------------------------------- C12
TerminalWritten(id) ==
    \E k \in 1..Len(WorkerWrites(id)) : WorkerWrites(id)[k].what \in Terminal

\* C12: a write of status "completed" stores, in the same update, the text
\* stage 1 returned as enhanced_job_description and an analysis whose
\* summary equals the result field; until the final write of the run the
\* record's enhanced_job_description is null.
C12_CompletedStoresStage1Text ==
    \A id \in Ids :
        LET H == history[id] IN
        /\ \A k \in 1..Len(H) :
              (IsWorkerWrite(H[k]) /\ H[k].what = "completed") =>
                  /\ \E j \in CallsOf(id, "stage1") :
                        /\ j < k
                        /\ ~H[j].arg.raised
                        /\ H[k].arg.enhanced_job_description = Some(H[j].arg.text)
                  /\ "analysis" \in DOMAIN H[k].arg
                  /\ "result" \in DOMAIN H[k].arg
                  /\ H[k].arg.analysis.summary = H[k].arg.result
                  /\ records[id].result = H[k].arg.analysis.summary
                  /\ records[id].analysis = H[k].arg.analysis
        /\ (id \in DOMAIN records /\ ~TerminalWritten(id)) =>
              DocGet(records[id], "enhanced_job_description") = None

C12_Witness ==
    \E id \in Ids :
        /\ RunFinished(id)
        /\ LastWorkerWrite(id).what = "completed"
        /\ records[id].enhanced_job_description # None

\* ----------------------------------------------------------------- C13
\* the outcome logged for the one invocation of a step
OutcomeOf(id, step) == history[id][CHOOSE k \in CallsOf(id, step) : TRUE].arg

\* the final workflow state carries no error: neither node set one
NoWorkflowError(id) ==
    /\ CallsOf(id, "stage1") # {}
    /\ CallsOf(id, "stage2") # {}
    /\ ~OutcomeOf(id, "stage1").raised
    /\ ~OutcomeOf(id, "stage2").raised
    /\ JsonLoads(OutcomeOf(id, "stage2").text).kind = "dict"

\* C13: the terminal write of a run is "completed" exactly when conversion
\* did not raise and the final workflow state carries no error of either
\* stage, and "error" otherwise; status "completed" is never written, nor
\* held by a record, together with an error field.
C13_CompletedIffNoError ==
    \A id \in Ids :
        /\ RunFinished(id) =>
              /\ LastWorkerWrite(id).what \in Terminal
              /\ (LastWorkerWrite(id).what = "completed")
                    <=> (~Raised(id, "convert") /\ NoWorkflowError(id))
        /\ \A k \in 1..Len(WorkerWrites(id)) :
              WorkerWrites(id)[k].what = "completed" =>
                  "error" \notin DOMAIN WorkerWrites(id)[k].arg
        /\ (id \in DOMAIN records /\ records[id].status = "completed") =>
              "error" \notin DOMAIN records[id]

C13_Witness ==
    \E id \in Ids :
        /\ RunFinished(id)
        /\ ~Raised(id, "convert")
        /\ ~NoWorkflowError(id)
        /\ LastWorkerWrite(id).what = "error"
        /\ "error" \in DOMAIN records[id]

\* ----------------------------------------------------------------- C14
\* the top-level handler of the run was reached
HandlerReached(id) ==
    \/ HandlerEntered(id)
    \/ \E k \in 1..Len(WorkerWrites(id)) :
          "analysis" \notin DOMAIN WorkerWrites(id)[k].arg
              /\ "error" \in DOMAIN WorkerWrites(id)[k].arg

StageCalls(id) == CallsOf(id, "stage1") \cup CallsOf(id, "stage2")

\* C14: the write of the top-level handler changes only status and error of
\* the record (name, job_description, enhanced_job_description, result and
\* analysis keep their value, or stay absent), and once the handler is
\* reached no model stage is invoked for the record.
C14_HandlerFrame ==
    [][/\ WorkerHandler =>
              /\ job.id \in DOMAIN records
              /\ records'[job.id].status = "error"
              /\ "error" \in DOMAIN records'[job.id]
              /\ \A key \in (DOMAIN records[job.id] \cup DOMAIN records'[job.id])
                                \ {"status", "error"} :
                    /\ key \in DOMAIN records[job.id]
                    /\ key \in DOMAIN records'[job.id]
                    /\ records'[job.id][key] = records[job.id][key]
       /\ \A id \in Ids :
              HandlerReached(id) => StageCalls(id)' = StageCalls(id)]_vars

C14_Witness ==
    \E id \in Ids :
        /\ job.id = id
        /\ pcW = "close"
        /\ Raised(id, "convert")
        /\ records[id].name = upload[id].filename
        /\ "analysis" \notin DOMAIN records[id]

\* ----------------------------------------------------------------- C15
\* C15: the database connection process_file opens is closed on every exit
\* path: once the run has returned, by the normal path or through the
\* top-level handler, its client is closed.
C15_ConnectionClosedOnExit ==
    \A id \in Ids : RunFinished(id) => ~connOpen[id]

====
